---- MODULE Spec2Model ----
(***************************************************************************)
(* Model of clear_elasticsearch_indices.py: ESClient (construction, run,   *)
(* _connect_to_elasticsearch, _delete_indices, email_results) and main().  *)
(* Strings are sequences of one-character strings so that the date parse   *)
(* of an index name is computed, not assumed.  Python values True, False   *)
(* and None are the strings "True", "False" and "None".                    *)
(***************************************************************************)
EXTENDS Integers, Sequences, FiniteSets, TLC

(* ---------------- bounds of the model ---------------- *)
MaxNodes == 2
MaxIndices == 2

(* ---------------- inputs ---------------- *)
Nodes == {"A", "B"}

\* keep_in_days=180 is the default of ESClient.__init__
DefaultKeepInDays == 180

KeepInDaysChoices == {0, DefaultKeepInDays}

\* date.today() of the run
Today == <<2024, 6, 1>>

IndexNames ==
  { <<"f","-","b","-","2","0","2","3",".","1","2",".","3">>,
    <<"f","b","-","2","0","2","3",".","1","2",".","0","4">>,
    <<"f","b","-","2","0","2","3",".","0","2",".","2","9">>,
    <<"f","b","-","b","a","d">> }

(* ---------------- str.split('-')[-1], str.replace, strptime ---------------- *)
Digits == {"0","1","2","3","4","5","6","7","8","9"}

DigitVal(c) ==
  CASE c = "0" -> 0 [] c = "1" -> 1 [] c = "2" -> 2 [] c = "3" -> 3
    [] c = "4" -> 4 [] c = "5" -> 5 [] c = "6" -> 6 [] c = "7" -> 7
    [] c = "8" -> 8 [] c = "9" -> 9

\* str(index).split('-')[-1]: the text after the last '-', the whole text if none
LastSegment(s) ==
  LET dashes == {k \in 1..Len(s) : s[k] = "-"}
      last == IF dashes = {} THEN 0 ELSE CHOOSE k \in dashes : \A q \in dashes : q <= k
  IN SubSeq(s, last + 1, Len(s))

\* index_date_str.replace('.', ' ')
ReplaceDots(s) == [k \in 1..Len(s) |-> IF s[k] = "." THEN " " ELSE s[k]]

\* length of the leading run of non-blank characters
RECURSIVE RunLen(_)
RunLen(s) == IF s = <<>> \/ Head(s) = " " THEN 0 ELSE 1 + RunLen(Tail(s))

\* the maximal non-blank runs of s, in order (the format's ' ' matches \s+)
RECURSIVE Fields(_)
Fields(s) ==
  IF s = <<>> THEN <<>>
  ELSE IF Head(s) = " " THEN Fields(Tail(s))
  ELSE <<SubSeq(s, 1, RunLen(s))>> \o Fields(SubSeq(s, RunLen(s) + 1, Len(s)))

AllDigits(t) == \A k \in 1..Len(t) : t[k] \in Digits

RECURSIVE Num(_)
Num(t) == IF t = <<>> THEN 0 ELSE 10 * Num(SubSeq(t, 1, Len(t) - 1)) + DigitVal(t[Len(t)])

IsLeap(y) == y % 4 = 0 /\ (y % 100 # 0 \/ y % 400 = 0)

DaysInMonth(y, m) ==
  IF m = 2 THEN (IF IsLeap(y) THEN 29 ELSE 28)
  ELSE IF m \in {4, 6, 9, 11} THEN 30 ELSE 31

NoDate == <<0, 0, 0>>

\* datetime.strptime(text, '%Y %m %d').date(): ok = FALSE stands for ValueError
Strptime(text) ==
  LET f == Fields(text)
      shaped == /\ text # <<>>
                /\ text[1] # " "
                /\ text[Len(text)] # " "
                /\ Len(f) = 3
                /\ Len(f[1]) = 4 /\ AllDigits(f[1])
                /\ Len(f[2]) \in {1, 2} /\ AllDigits(f[2])
                /\ Len(f[3]) \in {1, 2} /\ AllDigits(f[3])
  IN IF ~shaped THEN [ok |-> FALSE, date |-> NoDate]
     ELSE LET y == Num(f[1])
              m == Num(f[2])
              d == Num(f[3])
          IN IF y >= 1 /\ m \in 1..12 /\ d >= 1 /\ d <= DaysInMonth(y, m)
             THEN [ok |-> TRUE, date |-> <<y, m, d>>]
             ELSE [ok |-> FALSE, date |-> NoDate]

\* lines 59-61
ParseIndexDate(index) == Strptime(ReplaceDots(LastSegment(index)))

(* ---------------- datetime.date arithmetic and comparison ---------------- *)
DaysBeforeYear(y) == (y - 1) * 365 + (y - 1) \div 4 - (y - 1) \div 100 + (y - 1) \div 400

RECURSIVE DaysBeforeMonth(_, _)
DaysBeforeMonth(y, m) == IF m = 1 THEN 0 ELSE DaysBeforeMonth(y, m - 1) + DaysInMonth(y, m - 1)

ToOrdinal(d) == DaysBeforeYear(d[1]) + DaysBeforeMonth(d[1], d[2]) + d[3]

CalendarYears == (Today[1] - 1)..Today[1]

Calendar ==
  {d \in CalendarYears \X (1..12) \X (1..31) : d[3] <= DaysInMonth(d[1], d[2])}

FromOrdinal(n) == CHOOSE d \in Calendar : ToOrdinal(d) = n

\* date.today() - timedelta(days=keep_in_days)
CutoffDate(today, keep_in_days) == FromOrdinal(ToOrdinal(today) - keep_in_days)

\* date.__lt__: year, month, day compared in that order
DateLess(a, b) ==
  \/ a[1] < b[1]
  \/ a[1] = b[1] /\ a[2] < b[2]
  \/ a[1] = b[1] /\ a[2] = b[2] /\ a[3] < b[3]

(* ---------------- Python values ---------------- *)
\* dict(): a mapping with no key
EmptyDict == [k \in {} |-> "None"]

\* d[k] = v
DictSet(d, k, v) == [x \in DOMAIN d \cup {k} |-> IF x = k THEN v ELSE d[x]]

\* bool(obj) for None, lists and tuples
Truthy(obj) == obj.type # "NoneType" /\ obj.items # <<>>

\* isinstance(obj, list)
IsList(obj) == obj.type = "list"

SeqsUpTo(S, n) == UNION {[1..k -> S] : k \in 0..n}

\* the orders in which a listing can hand back at most n distinct keys
Listings(n) == {q \in SeqsUpTo(IndexNames, n) : \A a, b \in 1..Len(q) : a # b => q[a] # q[b]}

\* node lists of up to MaxNodes nodes that do not name a node twice in a row
NodeLists ==
  {q \in SeqsUpTo(Nodes, MaxNodes) : \A k \in 1..(Len(q) - 1) : q[k] # q[k + 1]}

\* the es_nodes arguments tried: None, (), a tuple, and the node lists
NodeArguments ==
  {[type |-> "NoneType", items |-> <<>>], [type |-> "tuple", items |-> <<>>],
   [type |-> "tuple", items |-> <<"A">>]}
  \cup {[type |-> "list", items |-> q] : q \in NodeLists}

Unset == [type |-> "unset", items |-> <<>>]

\* the "acknowledged" field of a delete response; "None" when the field is absent
AckFields == {"True", "False", "None"}

\* variant: resp.get("acknowledged", False)
GetAcknowledged_OrFalse(field) == IF field = "None" THEN "False" ELSE field

\* resp.get("acknowledged")
GetAcknowledged(field) == field

NoExit == [kind |-> "none", text |-> "", node |-> ""]

SystemExit(text, node) == [kind |-> "SystemExit", text |-> text, node |-> node]

\* an exception nothing catches: the traceback ends the process
Uncaught(kind) == [kind |-> kind, text |-> "", node |-> ""]

NoIndex == <<>>

Call(op, index, out) == [op |-> op, index |-> index, out |-> out]

Answer(pos, index, out) == [pos |-> pos, index |-> index, out |-> out]

VARIABLES
  pc,                       \* position of main()
  arg_es_nodes,             \* the es_nodes argument of ESClient(...)
  arg_keep_in_days,         \* the keep_in_days argument
  es_nodes,                 \* self.es_nodes
  cutoff_date,              \* self._cutoff_date
  node_pos,                 \* position of the generator in self.es_nodes
  keys,                     \* the names client.indices.get(...).keys() returned for this node
  pending,                  \* the part of keys, in order, the for loop has not reached
  deleted_indices,          \* local of _delete_indices
  list_of_deleted_indices,  \* local of run(), then of main()
  exit,                     \* how the process ended, NoExit while it runs
  emails,                   \* contents handed to sendmail that went out
  send_calls,               \* number of calls of mailserver.sendmail
  calls,                    \* calls made through the current client_obj, with their outcome
  deleted,                  \* cluster side: delete requests answered, with the answer
  not_found,                \* positions of the nodes whose listing raised NotFoundError
  refused                   \* positions of the nodes whose connection raised TransportError

args == <<arg_es_nodes, arg_keep_in_days>>
self == <<es_nodes, cutoff_date>>
locals == <<keys, pending, deleted_indices>>
mail == <<emails, send_calls>>
cluster == <<deleted, not_found, refused>>

vars == <<pc, args, self, node_pos, locals, list_of_deleted_indices, exit, mail, calls,
          cluster>>

node == es_nodes.items[node_pos]

index == Head(pending)

Init ==
  /\ pc = "main"
  /\ arg_es_nodes \in NodeArguments
  /\ arg_keep_in_days \in KeepInDaysChoices
  /\ es_nodes = Unset
  /\ cutoff_date = NoDate
  /\ node_pos = 0
  /\ keys = {}
  /\ pending = <<>>
  /\ deleted_indices = EmptyDict
  /\ list_of_deleted_indices = <<>>
  /\ exit = NoExit
  /\ emails = <<>>
  /\ send_calls = 0
  /\ calls = {}
  /\ deleted = {}
  /\ not_found = {}
  /\ refused = {}

\* the process ends: SystemExit or an exception no frame catches
Terminate(e) == pc' = "exit" /\ exit' = e

(* ---------------- ESClient.__init__, lines 27-32 ---------------- *)
\* line 27
RejectsNodes(obj) == ~IsList(obj) /\ ~Truthy(obj)

\* line 28
Init_Raise ==
  /\ pc = "main"
  /\ RejectsNodes(arg_es_nodes)
  /\ Terminate(SystemExit("List of one or more Elasticsearch nodes needed", ""))
  /\ UNCHANGED <<args, self, node_pos, locals, list_of_deleted_indices, mail, calls, cluster>>

\* lines 30-32; main() then calls run(), whose for loop starts the generator
Init_Ok ==
  /\ pc = "main"
  /\ ~RejectsNodes(arg_es_nodes)
  /\ es_nodes' = arg_es_nodes
  /\ cutoff_date' = CutoffDate(Today, arg_keep_in_days)
  /\ list_of_deleted_indices' = <<>>
  /\ node_pos' = 1
  /\ pc' = "connect"
  /\ UNCHANGED <<args, locals, exit, mail, calls, cluster>>

(* ---------------- _connect_to_elasticsearch, lines 78-84 ---------------- *)
\* lines 80 and 84: a fresh client_obj is yielded
Connect_Ok ==
  /\ pc = "connect"
  /\ node_pos <= Len(es_nodes.items)
  /\ calls' = {}
  /\ pc' = "get"
  /\ UNCHANGED <<args, self, node_pos, locals, list_of_deleted_indices, exit, mail, cluster>>

\* variant: the except clause of line 81 logs and goes on to the next node
Connect_TransportError_Skip ==
  /\ pc = "connect"
  /\ node_pos <= Len(es_nodes.items)
  /\ calls' = {}
  /\ refused' = refused \cup {node_pos}
  /\ node_pos' = node_pos + 1
  /\ UNCHANGED <<pc, args, self, locals, list_of_deleted_indices, exit, mail, deleted,
                 not_found>>

\* lines 81-83
Connect_TransportError ==
  /\ pc = "connect"
  /\ node_pos <= Len(es_nodes.items)
  /\ calls' = {}
  /\ refused' = refused \cup {node_pos}
  /\ Terminate(SystemExit("TransportError:", node))
  /\ UNCHANGED <<args, self, node_pos, locals, list_of_deleted_indices, mail, deleted,
                 not_found>>

\* the generator is exhausted: run() returns the list to main(), line 43
Run_Return ==
  /\ pc = "connect"
  /\ node_pos > Len(es_nodes.items)
  /\ pc' = "email"
  /\ UNCHANGED <<args, self, node_pos, locals, list_of_deleted_indices, exit, mail, calls,
                 cluster>>

(* ---------------- _delete_indices, lines 55-70 ---------------- *)
\* lines 56-57: the listing answers with its keys, in an order the cluster picks
Get_Ok ==
  /\ pc = "get"
  /\ \E q \in Listings(MaxIndices) :
       /\ keys' = {q[k] : k \in 1..Len(q)}
       /\ pending' = q
  /\ deleted_indices' = EmptyDict
  /\ calls' = calls \cup {Call("get", NoIndex, "ok")}
  /\ pc' = "for"
  /\ UNCHANGED <<args, self, node_pos, list_of_deleted_indices, exit, mail, cluster>>

\* variant: NotFoundError handled like ConnectionError
CatchNotFound_Exit(op, idx) ==
  /\ calls' = calls \cup {Call(op, idx, "NotFoundError")}
  /\ Terminate(SystemExit("Failed to connect to", node))

\* line 65: except NotFoundError: pass, then line 70
CatchNotFound(op, idx) ==
  /\ calls' = calls \cup {Call(op, idx, "NotFoundError")}
  /\ pc' = "return"
  /\ UNCHANGED exit

\* lines 67-69
CatchConnectionError(op, idx) ==
  /\ calls' = calls \cup {Call(op, idx, "ConnectionError")}
  /\ Terminate(SystemExit("Failed to connect to", node))

\* a TransportError that is neither NotFoundError nor ConnectionError meets no except clause
NoHandler(op, idx) ==
  /\ calls' = calls \cup {Call(op, idx, "TransportError")}
  /\ Terminate(Uncaught("TransportError"))

\* line 56 has run when line 57 raises
GetRaises ==
  /\ pc = "get"
  /\ keys' = {}
  /\ pending' = <<>>
  /\ deleted_indices' = EmptyDict
  /\ UNCHANGED <<args, self, node_pos, list_of_deleted_indices, mail, deleted, refused>>

Get_NotFound ==
  /\ GetRaises
  /\ not_found' = not_found \cup {node_pos}
  /\ CatchNotFound("get", NoIndex)

Get_ConnectionError ==
  /\ GetRaises
  /\ CatchConnectionError("get", NoIndex)
  /\ UNCHANGED not_found

Get_TransportError ==
  /\ GetRaises
  /\ NoHandler("get", NoIndex)
  /\ UNCHANGED not_found

AtIndex == pc = "for" /\ pending # <<>>

\* variant: <= in line 62
IsStale_OrEqual(idx) ==
  \/ DateLess(ParseIndexDate(idx).date, cutoff_date)
  \/ ParseIndexDate(idx).date = cutoff_date

\* line 62
IsStale(idx) == DateLess(ParseIndexDate(idx).date, cutoff_date)

\* variant: a name that does not parse is skipped
Strptime_ValueError_Skip ==
  /\ pc = "for" /\ pending # <<>>
  /\ ~ParseIndexDate(index).ok
  /\ calls' = calls \cup {Call("strptime", index, "ValueError")}
  /\ pending' = Tail(pending)
  /\ UNCHANGED <<pc, args, self, node_pos, keys, deleted_indices, list_of_deleted_indices,
                 exit, mail, cluster>>

\* lines 60-61 raise ValueError, which no except clause of _delete_indices names
Strptime_ValueError ==
  /\ AtIndex
  /\ ~ParseIndexDate(index).ok
  /\ calls' = calls \cup {Call("strptime", index, "ValueError")}
  /\ Terminate(Uncaught("ValueError"))
  /\ UNCHANGED <<args, self, node_pos, locals, list_of_deleted_indices, mail, cluster>>

\* line 62 is false: next key
Retain ==
  /\ AtIndex
  /\ ParseIndexDate(index).ok
  /\ ~IsStale(index)
  /\ pending' = Tail(pending)
  /\ UNCHANGED <<pc, args, self, node_pos, keys, deleted_indices, list_of_deleted_indices,
                 exit, mail, calls, cluster>>

AtStaleIndex == AtIndex /\ ParseIndexDate(index).ok /\ IsStale(index)

\* lines 63-64
Delete_Ok ==
  /\ AtStaleIndex
  /\ \E field \in AckFields :
       /\ calls' = calls \cup {Call("delete", index, field)}
       /\ deleted' = deleted \cup {Answer(node_pos, index, field)}
       /\ deleted_indices' = DictSet(deleted_indices, index, GetAcknowledged(field))
  /\ pending' = Tail(pending)
  /\ UNCHANGED <<pc, args, self, node_pos, keys, list_of_deleted_indices, exit, mail,
                 not_found, refused>>

\* line 63 raises
DeleteRaises ==
  /\ AtStaleIndex
  /\ UNCHANGED <<args, self, node_pos, locals, list_of_deleted_indices, mail, cluster>>

Delete_NotFound == DeleteRaises /\ CatchNotFound("delete", index)

Delete_ConnectionError == DeleteRaises /\ CatchConnectionError("delete", index)

Delete_TransportError == DeleteRaises /\ NoHandler("delete", index)

\* the for loop of line 57 is exhausted
For_End ==
  /\ pc = "for"
  /\ pending = <<>>
  /\ pc' = "return"
  /\ UNCHANGED <<args, self, node_pos, locals, list_of_deleted_indices, exit, mail, calls,
                 cluster>>

\* line 70
NodeReport(n, record) == [k \in {n} |-> record]

\* variant: line 42 inserts the report at the front
Return_Prepend ==
  /\ pc = "return"
  /\ list_of_deleted_indices' =
       <<[k \in {node} |-> deleted_indices]>> \o list_of_deleted_indices
  /\ node_pos' = node_pos + 1
  /\ keys' = {}
  /\ pending' = <<>>
  /\ deleted_indices' = EmptyDict
  /\ calls' = {}
  /\ pc' = "connect"
  /\ UNCHANGED <<args, self, exit, mail, cluster>>

\* line 70 returns to line 42, which appends; the locals of _delete_indices are gone and
\* the for loop of line 41 resumes the generator
Return_Append ==
  /\ pc = "return"
  /\ list_of_deleted_indices' =
       Append(list_of_deleted_indices, NodeReport(node, deleted_indices))
  /\ node_pos' = node_pos + 1
  /\ keys' = {}
  /\ pending' = <<>>
  /\ deleted_indices' = EmptyDict
  /\ calls' = {}
  /\ pc' = "connect"
  /\ UNCHANGED <<args, self, exit, mail, cluster>>

(* ---------------- email_results, lines 98-107, called at lines 123-128 ---------------- *)
Email_Ok ==
  /\ pc = "email"
  /\ send_calls' = send_calls + 1
  /\ emails' = Append(emails, list_of_deleted_indices)
  /\ pc' = "done"
  /\ UNCHANGED <<args, self, node_pos, locals, list_of_deleted_indices, exit, calls,
                 cluster>>

\* variant: a failed send is tried again
Email_Raise_Retry ==
  /\ pc = "email"
  /\ send_calls < 2
  /\ send_calls' = send_calls + 1
  /\ UNCHANGED <<pc, args, self, node_pos, locals, list_of_deleted_indices, exit, emails,
                 calls, cluster>>

\* smtplib raises; neither email_results nor main() has a handler
Email_Raise ==
  /\ pc = "email"
  /\ send_calls' = send_calls + 1
  /\ Terminate(Uncaught("SMTPException"))
  /\ UNCHANGED <<args, self, node_pos, locals, list_of_deleted_indices, emails, calls,
                 cluster>>

Next ==
  \/ Init_Raise \/ Init_Ok
  \/ Connect_Ok \/ Connect_TransportError \/ Run_Return
  \/ Get_Ok \/ Get_NotFound \/ Get_ConnectionError \/ Get_TransportError
  \/ Strptime_ValueError \/ Retain
  \/ Delete_Ok \/ Delete_NotFound \/ Delete_ConnectionError \/ Delete_TransportError
  \/ For_End \/ Return_Append
  \/ Email_Ok \/ Email_Raise

Spec == Init /\ [][Next]_vars

(* ======================= properties ======================= *)
Range(q) == {q[k] : k \in 1..Len(q)}

ErrorOutcomes == {"NotFoundError", "ConnectionError", "TransportError", "ValueError"}

\* index names for which this node's client was asked to delete
Requested == {c.index : c \in {x \in calls : x.op = "delete"}}

\* the cutoff as a day number: today - keep_in_days
CutoffOrdinal == ToOrdinal(Today) - arg_keep_in_days

\* listed names whose date is a day number strictly below the cutoff's
StaleKeys == {k \in keys : ParseIndexDate(k).ok /\ ToOrdinal(ParseIndexDate(k).date) < CutoffOrdinal}

\* _delete_indices is about to return after a listing and no error from the cluster
ReturnsClean ==
  /\ pc = "return"
  /\ Call("get", NoIndex, "ok") \in calls
  /\ \A c \in calls : c.out \notin ErrorOutcomes

\* the deletion record of the node at position p: the local while p is being pruned,
\* the value of its report afterwards
RecordAt(p) ==
  IF p = node_pos THEN deleted_indices
  ELSE list_of_deleted_indices[p][es_nodes.items[p]]

\* what the cluster answered for the deletes of position p, as a mapping
AnswersAt(p) ==
  LET mine == {d \in deleted : d.pos = p}
  IN [x \in {d.index : d \in mine} |-> (CHOOSE d \in mine : d.index = x).out]

\* C1: when _delete_indices returns after a listing whose names all parse and with no
\* error from the cluster, the names it asked to delete are exactly the listed names
\* dated strictly before today - keep_in_days, whatever the order of the listing.
C1_DeletesExactlyStale ==
  (ReturnsClean /\ \A k \in keys : ParseIndexDate(k).ok) => Requested = StaleKeys

\* a listing holding a name dated at the cutoff (kept) and one dated the day before (deleted)
C1_Witness ==
  /\ ReturnsClean
  /\ \E a, b \in keys :
       /\ ParseIndexDate(a).ok /\ ToOrdinal(ParseIndexDate(a).date) = CutoffOrdinal
       /\ ParseIndexDate(b).ok /\ ToOrdinal(ParseIndexDate(b).date) = CutoffOrdinal - 1
       /\ a \notin Requested
       /\ b \in Requested

\* C2: once the connection to the node at position p raised a transport error, the
\* process has exited naming that node, nothing can happen any more, no email was sent
\* and nothing at a position after p-1 was reported, listed or deleted.
C2_ConnectFailureStopsRun ==
  \A p \in refused :
    /\ pc = "exit"
    /\ exit = SystemExit("TransportError:", es_nodes.items[p])
    /\ node_pos = p
    /\ emails = <<>> /\ send_calls = 0
    /\ Len(list_of_deleted_indices) = p - 1
    /\ calls = {}
    /\ \A d \in deleted : d.pos < p
    /\ \A q \in not_found : q < p
    /\ ~ENABLED Next

\* the first of two nodes refuses the connection
C2_Witness ==
  /\ pc = "exit"
  /\ \E p \in refused : p < Len(es_nodes.items)

\* C3 as stated: any error other than "not found" met while listing or deleting ends
\* the process with the SystemExit that names the node.
C3_AnyTransportErrorNamesNode ==
  (\E c \in calls : c.op \in {"get", "delete"} /\ c.out \in {"ConnectionError", "TransportError"})
    => /\ pc = "exit"
       /\ exit = SystemExit("Failed to connect to", node)
       /\ emails = <<>> /\ send_calls = 0

\* C4: a node whose listing raised "not found" is never the node the run ends at: the
\* function returns, no delete is asked of that node, and its report is {node: {}}.
C4_NotFoundListingIsEmptyReport ==
  \A p \in not_found :
    /\ p <= node_pos
    /\ \A d \in deleted : d.pos # p
    /\ p = node_pos =>
         /\ pc = "return"
         /\ exit = NoExit
         /\ deleted_indices = EmptyDict
         /\ Requested = {}
    /\ p < node_pos =>
         list_of_deleted_indices[p] = [k \in {es_nodes.items[p]} |-> EmptyDict]

\* the first node has no matching index, the second is pruned, the email goes out
C4_Witness ==
  /\ pc = "done"
  /\ 1 \in not_found
  /\ Len(emails) = 1
  /\ \E d \in deleted : d.pos = 2

\* C5: at every point of a run the accumulated list holds one report per node already
\* fully processed, in input order, the i-th a mapping with the single key es_nodes[i]
\* whose value is the record of the deletes answered for that node; the list handed to
\* the notifier is that list with one report per node of the input.
C5_OneReportPerNodeInOrder ==
  es_nodes # Unset =>
    /\ Len(list_of_deleted_indices) = node_pos - 1
    /\ node_pos <= Len(es_nodes.items) + 1
    /\ \A i \in 1..Len(list_of_deleted_indices) :
         /\ DOMAIN list_of_deleted_indices[i] = {es_nodes.items[i]}
         /\ list_of_deleted_indices[i][es_nodes.items[i]] = AnswersAt(i)
    /\ (pc \in {"email", "done"} \/ send_calls > 0) =>
         Len(list_of_deleted_indices) = Len(es_nodes.items)
    /\ \A k \in 1..Len(emails) : emails[k] = list_of_deleted_indices

\* two different nodes reported, something deleted, the email sent
C5_Witness ==
  /\ pc = "done"
  /\ Len(list_of_deleted_indices) >= 2
  /\ es_nodes.items[1] # es_nodes.items[2]
  /\ \E d \in deleted : d.pos = 2
  /\ emails = <<list_of_deleted_indices>>

\* C6 as stated: an empty or absent es_nodes never gets past construction.
C6_EmptyNodesNeverStart ==
  ~Truthy(arg_es_nodes) =>
    /\ pc \in {"main", "exit"}
    /\ es_nodes = Unset
    /\ send_calls = 0

\* C7 as stated: the record holds the acknowledgement flag, and False when the response
\* has no such field, so every value is a boolean.
C7_ValuesAreBooleans ==
  \A d \in deleted :
    d.pos <= node_pos =>
      /\ d.index \in DOMAIN RecordAt(d.pos)
      /\ RecordAt(d.pos)[d.index] = (IF d.out = "None" THEN "False" ELSE d.out)
      /\ RecordAt(d.pos)[d.index] \in {"True", "False"}

\* C7 amended: the record holds the acknowledgement flag, and None when the response
\* has no such field, so every value is True, False or None.
C7_ValuesAreFlagOrNone ==
  /\ \A d \in deleted :
       /\ d.pos <= node_pos
       /\ d.index \in DOMAIN RecordAt(d.pos)
       /\ RecordAt(d.pos)[d.index] = d.out
  /\ \A p \in 1..node_pos :
       (p <= Len(list_of_deleted_indices) \/ pc \in {"for", "return"}) =>
         \A x \in DOMAIN RecordAt(p) : RecordAt(p)[x] \in AckFields

\* a finished run whose report holds a None and a True
C7_Witness ==
  /\ pc = "done"
  /\ \E d \in deleted : d.out = "None" /\ RecordAt(d.pos)[d.index] = "None"
  /\ \E d \in deleted : d.out = "True" /\ RecordAt(d.pos)[d.index] = "True"

\* C8: sendmail is called at most once, only when every node has been reported; after
\* the call, failed or not, nothing more happens (no retry), a failure leaves the
\* process ended by the exception, and the deletes answered are those reported.
C8_EmailOnceAfterAllNodes ==
  /\ send_calls <= 1
  /\ Len(emails) <= send_calls
  /\ send_calls = 1 =>
       /\ pc \in {"done", "exit"}
       /\ node_pos = Len(es_nodes.items) + 1
       /\ Len(list_of_deleted_indices) = Len(es_nodes.items)
       /\ \A d \in deleted : d.index \in DOMAIN list_of_deleted_indices[d.pos][es_nodes.items[d.pos]]
       /\ pc = "done" <=> Len(emails) = 1
       /\ pc = "exit" <=> exit = Uncaught("SMTPException")
       /\ ~ENABLED Next
  /\ exit.kind = "SMTPException" => send_calls = 1

\* the send fails after deletes were made
C8_Witness ==
  /\ exit.kind = "SMTPException"
  /\ deleted # {}

\* C9: a listed name that does not parse ends the process with the ValueError when the
\* loop reaches it: every name the loop got past parsed, and once the parse has failed
\* the failing name is still the loop's current one, nothing more can happen, no report
\* of the node was appended, no email was sent, and the deletes answered before stay.
C9_ParseFailureCrashesRun ==
  /\ pc \in {"for", "return", "exit"} =>
       \A k \in keys \ Range(pending) : ParseIndexDate(k).ok
  /\ \A c \in {x \in calls : x.op = "strptime"} :
       /\ pc = "exit"
       /\ exit = Uncaught("ValueError")
       /\ pending # <<>> /\ Head(pending) = c.index
       /\ Requested \subseteq keys \ Range(pending)
       /\ Len(list_of_deleted_indices) = node_pos - 1
       /\ emails = <<>> /\ send_calls = 0
       /\ \A x \in DOMAIN deleted_indices : \E d \in deleted : d.pos = node_pos /\ d.index = x
       /\ \A i \in 1..(node_pos - 1) :
            \A x \in DOMAIN RecordAt(i) : \E d \in deleted : d.pos = i /\ d.index = x
       /\ ~ENABLED Next

\* the parse fails after a delete on the same node, with a node still to come
C9_Witness ==
  /\ exit.kind = "ValueError"
  /\ DOMAIN deleted_indices # {}
  /\ node_pos < Len(es_nodes.items)

\* C10 as stated: when _delete_indices returns after a listing, a delete was asked for
\* every listed name dated before the cutoff.
C10_ReturnMeansAllStaleRequested ==
  (pc = "return" /\ Call("get", NoIndex, "ok") \in calls) => StaleKeys \subseteq Requested
====
